---- MODULE Spec2Model ----
\* Model of the notebook 01_adding_rag_to_an_agent_vdb_elasticsearch.ipynb:
\* the "Execution Flow" cell, statement by statement, the functions it calls
\* (load_documents, initialize_elasticsearch, create_index, get_budget_tool,
\* get_react_agent), and the two arithmetic tools (multiply, add) as the agent
\* invokes them while the chat query is running.
EXTENDS Integers, Sequences, FiniteSets, TLC

\* ---------------------------------------------------------------- bounds
\* number of PDF documents the reader may return
MaxDocs == 2
\* tool arguments range over -MaxArg .. MaxArg
MaxArg == 2
\* tool invocations the reasoning loop makes in one chat query
MaxToolCalls == 2

ArgSet == (0 - MaxArg) .. MaxArg

\* ---------------------------------------------------------------- values
\* Python's None, and the unset state of a notebook variable
None == [kind |-> "None"]

VARIABLES
    pc,                 \* next statement of the Execution Flow cell
    env_loaded,         \* load_dotenv() has run
    Settings,           \* llama_index.core.Settings: [llm, embed_model]
    documents, vector_store, index,          \* notebook globals
    multiply_tool, add_tool, budget_tool,
    agent, response,
    frame,              \* create_index's parameters and locals
    stdout,             \* what the cell has printed, in order
    failed,             \* the statement whose exception ended the run
    trace,              \* statements completed so far, in order
    calls,              \* how many times each statement was started
    created, used,      \* per notebook object: assignments / reads by the cell
    getenv_log,         \* os.getenv reads: [name, loaded]
    gwrites, greads,    \* writes / reads of the Settings globals, by statement
    tool_calls,         \* tool invocations made by the running chat query
    last_call           \* the last arithmetic tool invocation: [fn, a, b, result]

vars == <<pc, env_loaded, Settings, documents, vector_store, index,
          multiply_tool, add_tool, budget_tool, agent, response, frame,
          stdout, failed, trace, calls, created, used, getenv_log,
          gwrites, greads, tool_calls, last_call>>

\* ---------------------------------------------------------------- arithmetic tools
multiply_plus(a, b) == a + b

multiply(a, b) == a * b

add_minus(a, b) == a - b

add(a, b) == a + b

\* ---------------------------------------------------------------- the cell
\* The statements of the Execution Flow cell in source order; create_index is
\* entered at "create_index" and its body is the five ci_ statements.
Program_connect_first ==
    <<"load_dotenv", "set_llm", "initialize_elasticsearch", "print_vector_store",
      "load_documents", "print_documents",
      "create_index", "ci_boto3_client", "ci_BedrockEmbedding",
      "ci_set_embed_model", "ci_storage_context", "ci_from_documents",
      "multiply_tool", "add_tool", "get_budget_tool", "print_budget_tool",
      "get_react_agent", "chat">>

Program_embed_late ==
    <<"load_dotenv", "set_llm", "load_documents", "print_documents",
      "initialize_elasticsearch", "print_vector_store",
      "create_index", "ci_boto3_client", "ci_BedrockEmbedding",
      "ci_storage_context", "ci_from_documents", "ci_set_embed_model",
      "multiply_tool", "add_tool", "get_budget_tool", "print_budget_tool",
      "get_react_agent", "chat">>

Program ==
    <<"load_dotenv", "set_llm", "load_documents", "print_documents",
      "initialize_elasticsearch", "print_vector_store",
      "create_index", "ci_boto3_client", "ci_BedrockEmbedding",
      "ci_set_embed_model", "ci_storage_context", "ci_from_documents",
      "multiply_tool", "add_tool", "get_budget_tool", "print_budget_tool",
      "get_react_agent", "chat">>

Labels == {Program[i] : i \in DOMAIN Program}

IndexOf(p) == CHOOSE i \in DOMAIN Program : Program[i] = p

\* the statement after p; after the last one the cell is done
NextPc(p) ==
    IF IndexOf(p) = Len(Program) THEN "done" ELSE Program[IndexOf(p) + 1]

\* where control goes when statement p raises: nothing catches the exception
OnFail_continue(p) == NextPc(p)

OnFail_retry(p) == p

OnFail(p) == "aborted"

\* the operation (function of the notebook) a statement belongs to
Op(p) ==
    IF p \in {"create_index", "ci_boto3_client", "ci_BedrockEmbedding",
              "ci_set_embed_model", "ci_storage_context", "ci_from_documents"}
    THEN "create_index"
    ELSE IF p \in {"load_documents", "initialize_elasticsearch",
                   "get_budget_tool", "get_react_agent"}
    THEN p
    ELSE "flow"

Objects == {"documents", "vector_store", "index",
            "multiply_tool", "add_tool", "budget_tool"}

\* the notebook objects whose variables statement p reads
Reads_print_index(p) ==
    CASE p = "print_documents"    -> {"documents"}
      [] p = "print_vector_store" -> {"vector_store"}
      [] p = "create_index"       -> {"documents", "vector_store"}
      [] p = "get_budget_tool"    -> {"index"}
      [] p = "print_budget_tool"  -> {"budget_tool", "index"}
      [] p = "get_react_agent"    -> {"multiply_tool", "add_tool", "budget_tool"}
      [] OTHER                    -> {}

Reads(p) ==
    CASE p = "print_documents"    -> {"documents"}
      [] p = "print_vector_store" -> {"vector_store"}
      [] p = "create_index"       -> {"documents", "vector_store"}
      [] p = "get_budget_tool"    -> {"index"}
      [] p = "print_budget_tool"  -> {"budget_tool"}
      [] p = "get_react_agent"    -> {"multiply_tool", "add_tool", "budget_tool"}
      [] OTHER                    -> {}

\* the Settings global statement p assigns
GlobalWrite(p) ==
    CASE p = "set_llm"            -> {"llm"}
      [] p = "ci_set_embed_model" -> {"embed_model"}
      [] OTHER                    -> {}

\* the Settings global the library call of statement p falls back on, since
\* the call passes no llm / embed_model of its own
GlobalRead(p) ==
    CASE p = "ci_from_documents" -> {"embed_model"}
      [] p = "get_budget_tool"   -> {"llm"}
      [] p = "get_react_agent"   -> {"llm"}
      [] OTHER                   -> {}

\* the tool list get_react_agent hands to ReActAgent.from_tools
ToolList_two(m, a, b) == <<m, a>>

ToolList(m, a, b) == <<m, a, b>>

\* Settings.embed_model = m
SetEmbedModel_llm(S, m) == [S EXCEPT !.llm = m]

SetEmbedModel(S, m) == [S EXCEPT !.embed_model = m]

NoFrame ==
    [documents |-> None, vector_store |-> None, boto3_bedrock_client |-> None,
     bedrock_embedding_model |-> None, storage_context |-> None]

NoCall == [fn |-> "none", a |-> 0, b |-> 0, result |-> 0]

Init ==
    /\ pc = Program[1]
    /\ env_loaded = FALSE
    /\ Settings = [llm |-> None, embed_model |-> None]
    /\ documents = None /\ vector_store = None /\ index = None
    /\ multiply_tool = None /\ add_tool = None /\ budget_tool = None
    /\ agent = None /\ response = None
    /\ frame = NoFrame
    /\ stdout = <<>>
    /\ failed = "none"
    /\ trace = <<>>
    /\ calls = [p \in Labels |-> 0]
    /\ created = [o \in Objects |-> 0]
    /\ used = [o \in Objects |-> 0]
    /\ getenv_log = {}
    /\ gwrites = {}
    /\ greads = {}
    /\ tool_calls = 0
    /\ last_call = NoCall

\* ---------------------------------------------------------------- bookkeeping
\* statement p starts: it is counted, its variable reads and its reads of the
\* Settings globals happen
Start(p) ==
    /\ pc = p
    /\ calls' = [calls EXCEPT ![p] = @ + 1]
    /\ used' = [o \in Objects |-> IF o \in Reads(p) THEN used[o] + 1 ELSE used[o]]
    /\ greads' = greads \cup {[step |-> p, var |-> g] : g \in GlobalRead(p)}

\* statement p completes
Finish(p) ==
    /\ trace' = Append(trace, p)
    /\ pc' = NextPc(p)
    /\ failed' = failed
    /\ gwrites' = gwrites \cup {[step |-> p, var |-> g] : g \in GlobalWrite(p)}

\* statement p raises
Raise(p) ==
    /\ trace' = trace
    /\ pc' = OnFail(p)
    /\ failed' = p
    /\ gwrites' = gwrites

Getenv(names) ==
    getenv_log' = getenv_log \cup {[name |-> n, loaded |-> env_loaded] : n \in names}

Made(o) == created' = [created EXCEPT ![o] = @ + 1]

\* ---------------------------------------------------------------- statements
\* load_dotenv()
LoadDotenv ==
    /\ Start("load_dotenv")
    /\ env_loaded' = TRUE
    /\ Finish("load_dotenv")
    /\ UNCHANGED <<Settings, documents, vector_store, index, multiply_tool,
                   add_tool, budget_tool, agent, response, frame, stdout,
                   created, getenv_log, tool_calls, last_call>>

\* Settings.llm = Bedrock(model=os.getenv("AWS_BEDROCK_LLM_MODEL"), ...)
SetLlm ==
    /\ Start("set_llm")
    /\ Getenv({"AWS_BEDROCK_LLM_MODEL"})
    /\ \/ /\ Settings' = [Settings EXCEPT !.llm = [kind |-> "Bedrock"]]
          /\ Finish("set_llm")
       \/ /\ Raise("set_llm")
          /\ UNCHANGED Settings
    /\ UNCHANGED <<env_loaded, documents, vector_store, index, multiply_tool,
                   add_tool, budget_tool, agent, response, frame, stdout,
                   created, tool_calls, last_call>>

\* print("Loading documents..."); documents = load_documents("./data")
LoadDocuments ==
    /\ Start("load_documents")
    /\ stdout' = Append(stdout, "Loading documents...")
    /\ \/ /\ \E n \in 1..MaxDocs : documents' = [kind |-> "Documents", n |-> n]
          /\ Made("documents")
          /\ Finish("load_documents")
       \/ /\ Raise("load_documents")
          /\ UNCHANGED <<documents, created>>
    /\ UNCHANGED <<env_loaded, Settings, vector_store, index, multiply_tool,
                   add_tool, budget_tool, agent, response, frame,
                   getenv_log, tool_calls, last_call>>

\* print(documents)
PrintDocuments ==
    /\ Start("print_documents")
    /\ stdout' = Append(stdout, "documents")
    /\ Finish("print_documents")
    /\ UNCHANGED <<env_loaded, Settings, documents, vector_store, index,
                   multiply_tool, add_tool, budget_tool, agent, response, frame,
                   created, getenv_log, tool_calls, last_call>>

\* print("Initializing OpenSearch..."); vector_store = initialize_elasticsearch()
InitializeElasticsearch ==
    /\ Start("initialize_elasticsearch")
    /\ stdout' = Append(stdout, "Initializing OpenSearch...")
    /\ Getenv({"ELASTIC_HOST", "ELASTIC_USERNAME", "ELASTIC_PASSWORD", "INDEX_NAME"})
    /\ \/ /\ vector_store' = [kind |-> "ElasticsearchStore"]
          /\ Made("vector_store")
          /\ Finish("initialize_elasticsearch")
       \/ /\ Raise("initialize_elasticsearch")
          /\ UNCHANGED <<vector_store, created>>
    /\ UNCHANGED <<env_loaded, Settings, documents, index, multiply_tool,
                   add_tool, budget_tool, agent, response, frame,
                   tool_calls, last_call>>

\* print(vector_store)
PrintVectorStore ==
    /\ Start("print_vector_store")
    /\ stdout' = Append(stdout, "vector_store")
    /\ Finish("print_vector_store")
    /\ UNCHANGED <<env_loaded, Settings, documents, vector_store, index,
                   multiply_tool, add_tool, budget_tool, agent, response, frame,
                   created, getenv_log, tool_calls, last_call>>

\* print("Creating index and storing embeddings...");
\* create_index(documents, vector_store): the arguments are bound
CreateIndexEnter ==
    /\ Start("create_index")
    /\ stdout' = Append(stdout, "Creating index and storing embeddings...")
    /\ frame' = [NoFrame EXCEPT !.documents = documents,
                                !.vector_store = vector_store]
    /\ Finish("create_index")
    /\ UNCHANGED <<env_loaded, Settings, documents, vector_store, index,
                   multiply_tool, add_tool, budget_tool, agent, response,
                   created, getenv_log, tool_calls, last_call>>

\* boto3_bedrock_client = boto3.client(service_name="bedrock-runtime")
CiBoto3Client ==
    /\ Start("ci_boto3_client")
    /\ \/ /\ frame' = [frame EXCEPT !.boto3_bedrock_client = [kind |-> "BedrockRuntime"]]
          /\ Finish("ci_boto3_client")
       \/ /\ Raise("ci_boto3_client")
          /\ frame' = NoFrame
    /\ UNCHANGED <<env_loaded, Settings, documents, vector_store, index,
                   multiply_tool, add_tool, budget_tool, agent, response, stdout,
                   created, getenv_log, tool_calls, last_call>>

\* bedrock_embedding_model = BedrockEmbedding(
\*     model_name=os.getenv("AWS_BEDROCK_EMBEDDING_MODEL"), client=boto3_bedrock_client)
CiBedrockEmbedding ==
    /\ Start("ci_BedrockEmbedding")
    /\ Getenv({"AWS_BEDROCK_EMBEDDING_MODEL"})
    /\ \/ /\ frame' = [frame EXCEPT !.bedrock_embedding_model =
                          [kind |-> "BedrockEmbedding",
                           client |-> frame.boto3_bedrock_client]]
          /\ Finish("ci_BedrockEmbedding")
       \/ /\ Raise("ci_BedrockEmbedding")
          /\ frame' = NoFrame
    /\ UNCHANGED <<env_loaded, Settings, documents, vector_store, index,
                   multiply_tool, add_tool, budget_tool, agent, response, stdout,
                   created, tool_calls, last_call>>

\* Settings.embed_model = bedrock_embedding_model
CiSetEmbedModel ==
    /\ Start("ci_set_embed_model")
    /\ Settings' = SetEmbedModel(Settings, frame.bedrock_embedding_model)
    /\ Finish("ci_set_embed_model")
    /\ UNCHANGED <<env_loaded, documents, vector_store, index, multiply_tool,
                   add_tool, budget_tool, agent, response, frame, stdout,
                   created, getenv_log, tool_calls, last_call>>

\* storage_context = StorageContext.from_defaults(vector_store=vector_store)
CiStorageContext ==
    /\ Start("ci_storage_context")
    /\ \/ /\ frame' = [frame EXCEPT !.storage_context =
                          [kind |-> "StorageContext",
                           vector_store |-> frame.vector_store]]
          /\ Finish("ci_storage_context")
       \/ /\ Raise("ci_storage_context")
          /\ frame' = NoFrame
    /\ UNCHANGED <<env_loaded, Settings, documents, vector_store, index,
                   multiply_tool, add_tool, budget_tool, agent, response, stdout,
                   created, getenv_log, tool_calls, last_call>>

\* index = VectorStoreIndex.from_documents(documents, storage_context=...);
\* return index; the caller assigns it to the notebook's index
CiFromDocuments ==
    /\ Start("ci_from_documents")
    /\ frame' = NoFrame
    /\ \/ /\ index' = [kind |-> "VectorStoreIndex",
                       documents |-> frame.documents,
                       storage_context |-> frame.storage_context,
                       embed_model |-> Settings.embed_model]
          /\ Made("index")
          /\ Finish("ci_from_documents")
       \/ /\ Raise("ci_from_documents")
          /\ UNCHANGED <<index, created>>
    /\ UNCHANGED <<env_loaded, Settings, documents, vector_store,
                   multiply_tool, add_tool, budget_tool, agent, response, stdout,
                   getenv_log, tool_calls, last_call>>

\* a tool descriptor: FunctionTool and QueryEngineTool alike
Tool(kind, name, ix, llm) ==
    [kind |-> kind, name |-> name, index |-> ix, llm |-> llm]

\* print("Get Basic Maths Functions and Query Engine Tools...");
\* multiply_tool = FunctionTool.from_defaults(fn=multiply)
MultiplyTool ==
    /\ Start("multiply_tool")
    /\ stdout' = Append(stdout, "Get Basic Maths Functions and Query Engine Tools...")
    /\ \/ /\ multiply_tool' = Tool("FunctionTool", "multiply", None, None)
          /\ Made("multiply_tool")
          /\ Finish("multiply_tool")
       \/ /\ Raise("multiply_tool")
          /\ UNCHANGED <<multiply_tool, created>>
    /\ UNCHANGED <<env_loaded, Settings, documents, vector_store, index,
                   add_tool, budget_tool, agent, response, frame,
                   getenv_log, tool_calls, last_call>>

\* add_tool = FunctionTool.from_defaults(fn=add)
AddTool ==
    /\ Start("add_tool")
    /\ \/ /\ add_tool' = Tool("FunctionTool", "add", None, None)
          /\ Made("add_tool")
          /\ Finish("add_tool")
       \/ /\ Raise("add_tool")
          /\ UNCHANGED <<add_tool, created>>
    /\ UNCHANGED <<env_loaded, Settings, documents, vector_store, index,
                   multiply_tool, budget_tool, agent, response, frame, stdout,
                   getenv_log, tool_calls, last_call>>

\* budget_tool = get_budget_tool(index, "canadian_budget_2023", "...")
GetBudgetTool ==
    /\ Start("get_budget_tool")
    /\ \/ /\ budget_tool' = Tool("QueryEngineTool", "canadian_budget_2023",
                                 index, Settings.llm)
          /\ Made("budget_tool")
          /\ Finish("get_budget_tool")
       \/ /\ Raise("get_budget_tool")
          /\ UNCHANGED <<budget_tool, created>>
    /\ UNCHANGED <<env_loaded, Settings, documents, vector_store, index,
                   multiply_tool, add_tool, agent, response, frame, stdout,
                   getenv_log, tool_calls, last_call>>

\* print(budget_tool)
PrintBudgetTool ==
    /\ Start("print_budget_tool")
    /\ stdout' = Append(stdout, "budget_tool")
    /\ Finish("print_budget_tool")
    /\ UNCHANGED <<env_loaded, Settings, documents, vector_store, index,
                   multiply_tool, add_tool, budget_tool, agent, response, frame,
                   created, getenv_log, tool_calls, last_call>>

\* print("Initialize and Get ReAct Agent for Chat...");
\* agent = get_react_agent(multiply_tool, add_tool, budget_tool)
GetReactAgent ==
    /\ Start("get_react_agent")
    /\ stdout' = Append(stdout, "Initialize and Get ReAct Agent for Chat...")
    /\ \/ /\ agent' = [kind |-> "ReActAgent",
                       tools |-> ToolList(multiply_tool, add_tool, budget_tool),
                       llm |-> Settings.llm]
          /\ Finish("get_react_agent")
       \/ /\ Raise("get_react_agent")
          /\ UNCHANGED agent
    /\ UNCHANGED <<env_loaded, Settings, documents, vector_store, index,
                   multiply_tool, add_tool, budget_tool, response, frame,
                   created, getenv_log, tool_calls, last_call>>

\* agent.chat("...") is entered
ChatStart ==
    /\ Start("chat")
    /\ pc' = "chat_running"
    /\ UNCHANGED <<env_loaded, Settings, documents, vector_store, index,
                   multiply_tool, add_tool, budget_tool, agent, response, frame,
                   stdout, failed, trace, created, getenv_log, gwrites,
                   tool_calls, last_call>>

HasTool(name) ==
    /\ agent # None
    /\ \E i \in DOMAIN agent.tools : agent.tools[i].name = name

\* the reasoning loop invokes a tool; verbose=True prints the step
Invoke(call) ==
    /\ pc = "chat_running"
    /\ tool_calls < MaxToolCalls
    /\ tool_calls' = tool_calls + 1
    /\ last_call' = call
    /\ stdout' = Append(stdout, "agent step")
    /\ UNCHANGED <<pc, env_loaded, Settings, documents, vector_store, index,
                   multiply_tool, add_tool, budget_tool, agent, response, frame,
                   failed, trace, calls, created, used, getenv_log,
                   gwrites, greads>>

\* the agent calls multiply(a, b)
AgentMultiply ==
    /\ HasTool("multiply")
    /\ \E a \in ArgSet, b \in ArgSet :
         Invoke([fn |-> "multiply", a |-> a, b |-> b, result |-> multiply(a, b)])

\* the agent calls add(a, b)
AgentAdd ==
    /\ HasTool("add")
    /\ \E a \in ArgSet, b \in ArgSet :
         Invoke([fn |-> "add", a |-> a, b |-> b, result |-> add(a, b)])

\* the agent queries the retrieval tool
AgentQuery ==
    /\ HasTool("canadian_budget_2023")
    /\ Invoke([fn |-> "canadian_budget_2023", a |-> 0, b |-> 0, result |-> 0])

\* response = agent.chat(...) returns, or raises; the cell ends here
ChatReturn ==
    /\ pc = "chat_running"
    /\ \/ /\ response' = [kind |-> "AgentChatResponse"]
          /\ Finish("chat")
       \/ /\ Raise("chat")
          /\ UNCHANGED response
    /\ UNCHANGED <<env_loaded, Settings, documents, vector_store, index,
                   multiply_tool, add_tool, budget_tool, agent, frame, stdout,
                   calls, created, used, getenv_log, greads,
                   tool_calls, last_call>>

Next ==
    \/ LoadDotenv
    \/ SetLlm
    \/ LoadDocuments
    \/ PrintDocuments
    \/ InitializeElasticsearch
    \/ PrintVectorStore
    \/ CreateIndexEnter
    \/ CiBoto3Client
    \/ CiBedrockEmbedding
    \/ CiSetEmbedModel
    \/ CiStorageContext
    \/ CiFromDocuments
    \/ MultiplyTool
    \/ AddTool
    \/ GetBudgetTool
    \/ PrintBudgetTool
    \/ GetReactAgent
    \/ ChatStart
    \/ AgentMultiply
    \/ AgentAdd
    \/ AgentQuery
    \/ ChatReturn

Spec == Init /\ [][Next]_vars

\* ---------------------------------------------------------------- properties
Range(f) == {f[i] : i \in DOMAIN f}

\* C1: whenever the agent has invoked add(a, b), with a and b ranging over a
\* set that holds zero and negative values, the value returned is a + b.
C1_AddReturnsSum ==
    last_call.fn = "add" => last_call.result = last_call.a + last_call.b

C1_Witness ==
    /\ last_call.fn = "add"
    /\ last_call.a < 0
    /\ last_call.b = 0
    /\ last_call.result = last_call.a

\* C2: whenever the agent has invoked multiply(a, b), with a and b ranging
\* over a set that holds zero and negative values, the value returned is a * b.
C2_MultiplyReturnsProduct ==
    last_call.fn = "multiply" => last_call.result = last_call.a * last_call.b

C2_Witness ==
    /\ last_call.fn = "multiply"
    /\ last_call.a < 0
    /\ last_call.b < 0
    /\ last_call.result > 0

\* the step of the fixed order a statement belongs to: 1 load env, 2 load
\* docs, 3 connect store, 4 index, 5 build tools, 6 build agent, 7 chat query
Phase(p) ==
    CASE p \in {"load_dotenv", "set_llm"}                         -> 1
      [] p \in {"load_documents", "print_documents"}              -> 2
      [] p \in {"initialize_elasticsearch", "print_vector_store"} -> 3
      [] p \in {"create_index", "ci_boto3_client", "ci_BedrockEmbedding",
                "ci_set_embed_model", "ci_storage_context",
                "ci_from_documents"}                              -> 4
      [] p \in {"multiply_tool", "add_tool", "get_budget_tool",
                "print_budget_tool"}                              -> 5
      [] p = "get_react_agent"                                    -> 6
      [] OTHER                                                    -> 7

\* C3: the steps run in the order load env, load docs, connect store, index,
\* build tools, build agent, chat query: a statement starts, and has completed,
\* only after every statement of every earlier step has completed, and a run
\* that reaches the end has completed every statement.
C3_FixedOrder ==
    /\ \A i \in DOMAIN trace : \A q \in Labels :
          Phase(q) < Phase(trace[i]) => \E j \in 1..(i - 1) : trace[j] = q
    /\ pc \in Labels =>
          \A q \in Labels : Phase(q) < Phase(pc) => q \in Range(trace)
    /\ pc \in {"chat_running", "done"} =>
          \A q \in Labels : Phase(q) < 7 => q \in Range(trace)
    /\ pc = "done" => Labels \subseteq Range(trace)

C3_Witness ==
    /\ pc = "done"
    /\ Len(trace) = 18
    /\ trace[1] = "load_dotenv"
    /\ trace[18] = "chat"

\* C4: in a run whose chat query returned a response, the last thing the
\* cell prints is that response.
C4_ResponsePrintedLast ==
    (pc = "done" /\ response # None) =>
        (stdout # <<>> /\ stdout[Len(stdout)] = "response")

\* the variable a statement's result is assigned to
TargetOf(p) ==
    CASE p = "set_llm"                  -> Settings.llm
      [] p = "load_documents"           -> documents
      [] p = "initialize_elasticsearch" -> vector_store
      [] p \in {"ci_boto3_client", "ci_BedrockEmbedding",
                "ci_storage_context", "ci_from_documents"} -> index
      [] p = "multiply_tool"            -> multiply_tool
      [] p = "add_tool"                 -> add_tool
      [] p = "get_budget_tool"          -> budget_tool
      [] p = "get_react_agent"          -> agent
      [] OTHER                          -> response

\* C5: once a statement has raised, the run has ended at that statement: no
\* statement after it has been started and the variable that was to take the
\* failed statement's result is still unset.
C5_FailureEndsRun ==
    failed # "none" =>
        /\ pc = "aborted"
        /\ failed \notin Range(trace)
        /\ \A q \in Labels : Phase(q) > Phase(failed) => calls[q] = 0
        /\ \A q \in Labels : calls[q] > 0 => (q = failed \/ q \in Range(trace))
        /\ TargetOf(failed) = None

C5_Witness ==
    /\ failed = "ci_from_documents"
    /\ pc = "aborted"
    /\ documents # None
    /\ vector_store # None
    /\ index = None

\* C6: every statement, and so every external call, is started at most once
\* in a run, whether it completes or raises, and a run in which every
\* statement completes has issued exactly one chat query.
C6_SingleShot ==
    /\ \A p \in Labels : calls[p] <= 1
    /\ pc = "done" => \A p \in Labels : calls[p] = 1
    /\ failed # "none" => calls[failed] = 1

C6_Witness ==
    /\ pc = "done"
    /\ calls["chat"] = 1
    /\ calls["load_documents"] = 1

\* C7: whenever the agent exists its tools are exactly the multiply function
\* tool, the add function tool and the retrieval tool built from the index
\* this run created; the chat query leaves the tool list as it was built.
C7_AgentTools ==
    agent # None =>
        /\ Len(agent.tools) = 3
        /\ agent.tools[1] = Tool("FunctionTool", "multiply", None, None)
        /\ agent.tools[2] = Tool("FunctionTool", "add", None, None)
        /\ agent.tools[3].kind = "QueryEngineTool"
        /\ agent.tools[3].index = index
        /\ index # None
        /\ created["index"] = 1
        /\ agent.tools = <<multiply_tool, add_tool, budget_tool>>

C7_Witness ==
    /\ agent # None
    /\ pc = "chat_running"
    /\ tool_calls > 0
    /\ last_call.fn = "canadian_budget_2023"

\* C8 as stated: in a run that completes, each handled object has been
\* created exactly once and read exactly once.
C8_CreatedOnceUsedOnce ==
    pc = "done" => \A o \in Objects : created[o] = 1 /\ used[o] = 1

\* the reads of each object's variable in a complete run
UsesOf(o) == IF o \in {"documents", "vector_store", "budget_tool"} THEN 2 ELSE 1

\* C8 amended: each handled object is created at most once and never read
\* before it is created; in a run that completes it has been created exactly
\* once, the index and the two function tools have been read exactly once, and
\* the document list, the vector store and the retrieval tool exactly twice
\* (the print after their creation, and the step that consumes them).
C8_CreatedOnceUsedOnceOrTwice ==
    /\ \A o \in Objects :
          /\ created[o] <= 1
          /\ used[o] <= UsesOf(o)
          /\ used[o] > 0 => created[o] = 1
    /\ pc = "done" =>
          \A o \in Objects : created[o] = 1 /\ used[o] = UsesOf(o)

C8_Witness ==
    /\ pc = "done"
    /\ used["documents"] = 2
    /\ used["index"] = 1

\* C9 as stated: no Settings global written by a statement of one of the
\* notebook's functions is read by another statement.
C9_NoSharedState ==
    \A w \in gwrites :
        Op(w.step) # "flow" =>
            ~ \E r \in greads : r.var = w.var /\ r.step # w.step

\* C9 amended: a step changes a variable outside the locals of the function it
\* belongs to only if it is the assignment of that statement's own result, with
\* one exception: create_index assigns the global Settings.embed_model. No
\* other statement of a notebook function, and no tool invocation, changes a
\* Settings global or another statement's variable.
C9_OnlyEmbedModelShared ==
    [][ /\ Settings'.llm # Settings.llm => pc = "set_llm"
        /\ Settings'.embed_model # Settings.embed_model => pc = "ci_set_embed_model"
        /\ documents' # documents => pc = "load_documents"
        /\ vector_store' # vector_store => pc = "initialize_elasticsearch"
        /\ index' # index => pc = "ci_from_documents"
        /\ multiply_tool' # multiply_tool => pc = "multiply_tool"
        /\ add_tool' # add_tool => pc = "add_tool"
        /\ budget_tool' # budget_tool => pc = "get_budget_tool"
        /\ agent' # agent => pc = "get_react_agent"
        /\ response' # response => pc = "chat_running"
        /\ env_loaded' # env_loaded => pc = "load_dotenv"
      ]_vars

C9_Witness ==
    /\ Settings.embed_model # None
    /\ [step |-> "ci_set_embed_model", var |-> "embed_model"] \in gwrites
    /\ [step |-> "ci_from_documents", var |-> "embed_model"] \in greads
    /\ last_call.fn = "add"

\* C10: every os.getenv read happens after load_dotenv; the query-engine
\* tool, the agent and the chat query find Settings.llm assigned and the
\* index is built with Settings.embed_model assigned; each setting is assigned
\* by one statement that runs once and is never cleared afterwards.
C10_ConfigurationPrecedesUse ==
    /\ \A e \in getenv_log : e.loaded
    /\ index # None => index.embed_model # None
    /\ budget_tool # None => budget_tool.llm # None
    /\ agent # None => agent.llm # None
    /\ calls["chat"] > 0 => Settings.llm # None
    /\ \A r \in greads : \E w \in gwrites : w.var = r.var
    /\ \A w \in gwrites : calls[w.step] = 1 /\ Settings[w.var] # None
    /\ \A w1 \in gwrites : \A w2 \in gwrites : w1.var = w2.var => w1 = w2

C10_Witness ==
    /\ pc = "done"
    /\ Cardinality(getenv_log) = 6
    /\ index.embed_model = [kind |-> "BedrockEmbedding",
                            client |-> [kind |-> "BedrockRuntime"]]
    /\ agent.llm = [kind |-> "Bedrock"]
====
